---- MODULE Spec2Model ----
(***************************************************************************)
(* A model of the NwsBot maubot plugin (src/weather/weather.py).           *)
(*                                                                         *)
(* Python strings that the plugin trims and concatenates are sequences of  *)
(* tokens; a token is one character (" ", "K", "S") or a fixed literal of  *)
(* the source ("https://w1.weather.gov/xml/current_obs", ".xml", ...).     *)
(* The plugin object is the record plugin; every method that reads or      *)
(* writes self takes the record and returns the record it leaves behind.   *)
(***************************************************************************)
EXTENDS Naturals, Sequences, FiniteSets

VARIABLES
  plugin,    \* the long-lived NwsBot object: stored values and config
  pc,        \* per task: where its weather_handler coroutine is suspended
  location,  \* per task: the raw `location` argument of the command
  url,       \* per task: the URL handed to self.http.get
  status,    \* per task: HTTP status of the response object
  body,      \* per task: the document returned by response.text()
  parsed,    \* per task: whether _parse_xml was called
  error,     \* per task: the exception that ended the handler, if any
  link,      \* per task: what config["show_link"] was when _message read it
  msg,       \* per task: the message handed to evt.respond
  phase,     \* unit-level specifications: position of the driver
  arg,       \* unit-level specifications: the argument under test
  ret        \* unit-level specifications: the values returned so far

vars == <<plugin, pc, location, url, status, body, parsed, error, link, msg,
          phase, arg, ret>>

handlerVars == <<pc, location, url, status, body, parsed, error, link, msg>>
unitVars == <<phase, arg, ret>>

-----------------------------------------------------------------------------
(* Bounds of the unit-level specifications.                                *)

MaxLen == 3          \* longest raw location argument
MaxDefaultLen == 2   \* longest configured default_location
MaxChildren == 3     \* most direct children of a document's root

-----------------------------------------------------------------------------
(* Strings.                                                                *)

Char == {" ", "K", "S"}

Strings(n) == UNION {[1..k -> Char] : k \in 0..n}

IsSpace(c) == c = " "

RECURSIVE lstrip(_)
lstrip(s) ==
  IF s # <<>> /\ IsSpace(Head(s)) THEN lstrip(Tail(s)) ELSE s

RECURSIVE rstrip(_)
rstrip(s) ==
  IF s # <<>> /\ IsSpace(s[Len(s)]) THEN rstrip(SubSeq(s, 1, Len(s) - 1)) ELSE s

\* str.strip(): leading and trailing whitespace removed, the inside kept.
strip(s) == rstrip(lstrip(s))

-----------------------------------------------------------------------------
(* Python values that are not strings.                                     *)

\* None, as a config value and as the text of an empty element.
None == <<"<None>">>

\* An attribute that was annotated on the class and never assigned.
Unset == <<"<unset>">>

-----------------------------------------------------------------------------
(* The plugin object.                                                      *)

_service_url == <<"https://w1.weather.gov/xml/current_obs">>

\* The values default_location takes in the handler specifications.
ConfigDefaults == {None, <<>>, <<"K", " ">>}

\* The raw arguments the command is given in the handler specifications.
RawLocations == {<<>>, <<" ">>, <<"K">>, <<" ", "S">>}

Config(show_link, default_location) ==
  [show_link |-> show_link, default_location |-> default_location]

\* The object after construction: the three stored values are annotations
\* only, and the configuration has been loaded by start().
NwsBot(cfg) ==
  [stored_language |-> Unset, stored_location |-> Unset,
   stored_units |-> Unset, config |-> cfg]

\* A reset that forgets the location.
reset_keeps_location(self) ==
  [self EXCEPT !.stored_language = <<>>, !.stored_units = <<>>]

_reset_stored_values(self) ==
  [self EXCEPT !.stored_language = <<>>,
               !.stored_location = <<>>,
               !.stored_units = <<>>]

_config_value(self, name) ==
  IF self.config[name] # None THEN strip(self.config[name]) ELSE <<>>

\* A resolver that prefers the configured default.
location_prefers_default(self, loc) ==
  IF self.stored_location = <<>>
    THEN [self EXCEPT !.stored_location =
            strip(IF _config_value(self, "default_location") # <<>>
                    THEN _config_value(self, "default_location")
                    ELSE strip(loc))]
    ELSE self

\* self._location(location): the object it leaves; the value returned is
\* the stored_location of that object.
_location(self, loc) ==
  IF self.stored_location = <<>>
    THEN [self EXCEPT !.stored_location =
            strip(IF strip(loc) # <<>>
                    THEN strip(loc)
                    ELSE _config_value(self, "default_location"))]
    ELSE self

\* yarl's URL(...) followed by str(): a space of the path is sent as %20.
RECURSIVE URL(_)
URL(s) ==
  IF s = <<>> THEN <<>>
  ELSE (IF Head(s) = " " THEN <<"%20">> ELSE <<Head(s)>>) \o URL(Tail(s))

\* self._base_url(): the object it leaves (it calls _location()) and the URL.
_base_url(self) ==
  LET after == _location(self, <<>>)
  IN  [self |-> after,
       ret  |-> URL(_service_url \o <<"/">> \o after.stored_location \o <<".xml">>)]

_options(self) ==
  (IF self.stored_language # <<>>
     THEN <<[key |-> <<"lang">>, value |-> self.stored_language]>>
     ELSE <<>>)
  \o
  (IF self.stored_units # <<>>
     THEN <<[key |-> self.stored_units, value |-> <<>>]>>
     ELSE <<>>)

_url(self) == _base_url(self)

LinkLine(u) == <<"\n\n([weather.gov](">> \o u \o <<"))">>

\* self._message(content): the object it leaves and the message.
_message(self, content) ==
  IF self.config["show_link"]
    THEN [self |-> _url(self).self, ret |-> content \o LinkLine(_url(self).ret)]
    ELSE [self |-> self, ret |-> content]

-----------------------------------------------------------------------------
(* The response document and its parser.                                   *)

\* A document: well-formed or not, and the root's direct children in order.
Document(wellformed, children) ==
  [wellformed |-> wellformed, children |-> children]

Element(tag, text) == [tag |-> tag, text |-> text]

Malformed == Document(FALSE, <<>>)

\* A fromstring that recovers from a document it cannot parse.
ET_fromstring_lenient(xmldata) == [raised |-> FALSE, tree |-> xmldata.children]

\* ET.fromstring(xmldata): the root's children, or ParseError raised.
ET_fromstring(xmldata) ==
  IF xmldata.wellformed
    THEN [raised |-> FALSE, tree |-> xmldata.children]
    ELSE [raised |-> TRUE, tree |-> <<>>]

EmptyDict == [k \in {} |-> None]

\* wxdict[tag] = text
SetItem(wxdict, tag, text) ==
  [k \in DOMAIN wxdict \cup {tag} |-> IF k = tag THEN text ELSE wxdict[k]]

\* An insertion that keeps the value a key already has.
SetDefault(wxdict, tag, text) ==
  [k \in DOMAIN wxdict \cup {tag} |->
     IF k \in DOMAIN wxdict THEN wxdict[k] ELSE text]

\* A loop body that overwrites nothing.
ParseChildFirstWins(wxdict, child) ==
  IF child.tag = "image" THEN wxdict
  ELSE IF child.tag = "observation_time" THEN wxdict
  ELSE SetDefault(wxdict, child.tag, child.text)

\* The body of `for child in tree`, for one child.
ParseChild(wxdict, child) ==
  IF child.tag = "image" THEN wxdict
  ELSE IF child.tag = "observation_time" THEN wxdict
  ELSE SetItem(wxdict, child.tag, child.text)

RECURSIVE ParseLoop(_, _)
ParseLoop(tree, wxdict) ==
  IF tree = <<>> THEN wxdict
  ELSE ParseLoop(Tail(tree), ParseChild(wxdict, Head(tree)))

\* self._parse_xml(xmldata): the dict, or the ParseError of fromstring.
_parse_xml(xmldata) ==
  LET t == ET_fromstring(xmldata)
  IN  IF t.raised
        THEN [raised |-> TRUE, ret |-> EmptyDict]
        ELSE [raised |-> FALSE, ret |-> ParseLoop(t.tree, EmptyDict)]

\* wxdata.get(key)
Get(wxdata, key) == IF key \in DOMAIN wxdata THEN wxdata[key] ELSE None

\* What an f-string writes for a value: str(None) is "None".
Str(v) == IF v = None THEN <<"None">> ELSE v

\* The eight fields of the template, in its order.
TemplateFields ==
  <<"station_id", "location", "weather", "temperature_string",
    "relative_humidity", "wind_string", "dewpoint_string", "visibility_mi">>

\* The literal text the template writes before each field.
TemplateLabels ==
  <<"[", "] Location: ", "\\\nWeather: ", "\\\nTemperature: ",
    "\\\nRelative Humidity: ", "\\\nWind: ", "\\\nDew Point: ",
    "\\\nVisibility (miles): ">>

RECURSIVE WxFmtFrom(_, _)
WxFmtFrom(wxdata, i) ==
  IF i > Len(TemplateFields) THEN <<>>
  ELSE <<TemplateLabels[i]>> \o Str(Get(wxdata, TemplateFields[i]))
       \o WxFmtFrom(wxdata, i + 1)

\* The f-string wxfmt of weather_handler.
wxfmt(wxdata) == WxFmtFrom(wxdata, 1)

-----------------------------------------------------------------------------
(* weather_handler, one coroutine per command, suspended only at its       *)
(* awaits: self.http.get, response.text and evt.respond.                   *)

Tasks == {"t1", "t2"}

\* What the HTTP client can return for the GET.
Statuses == {200, 404}

\* The bodies the service answers with in the handler specifications.
ResponseBodies ==
  { Malformed,
    Document(TRUE, <<>>),
    Document(TRUE, <<Element("station_id", <<"KSMP">>),
                     Element("image", None),
                     Element("weather", <<"Fair">>),
                     Element("wind_string", None)>>),
    Document(TRUE, <<Element("station_id", <<"KSMP">>),
                     Element("location", <<"St. Paul">>),
                     Element("weather", <<"Fair">>),
                     Element("temperature_string", <<"72F">>),
                     Element("relative_humidity", <<"40%">>),
                     Element("wind_string", <<"Calm">>),
                     Element("dewpoint_string", <<"50F">>),
                     Element("visibility_mi", <<"10">>)>>) }

NoLocals(t) ==
  /\ location' = [location EXCEPT ![t] = <<>>]
  /\ url' = [url EXCEPT ![t] = <<>>]
  /\ status' = [status EXCEPT ![t] = 0]
  /\ body' = [body EXCEPT ![t] = Malformed]
  /\ parsed' = [parsed EXCEPT ![t] = FALSE]
  /\ error' = [error EXCEPT ![t] = ""]
  /\ link' = [link EXCEPT ![t] = FALSE]
  /\ msg' = [msg EXCEPT ![t] = <<>>]

Init ==
  /\ \E sl \in BOOLEAN, dl \in ConfigDefaults : plugin = NwsBot(Config(sl, dl))
  /\ pc = [t \in Tasks |-> "idle"]
  /\ location = [t \in Tasks |-> <<>>]
  /\ url = [t \in Tasks |-> <<>>]
  /\ status = [t \in Tasks |-> 0]
  /\ body = [t \in Tasks |-> Malformed]
  /\ parsed = [t \in Tasks |-> FALSE]
  /\ error = [t \in Tasks |-> ""]
  /\ link = [t \in Tasks |-> FALSE]
  /\ msg = [t \in Tasks |-> <<>>]
  /\ phase = "handler"
  /\ arg = <<>>
  /\ ret = <<>>

\* Lines 53-55 up to the await: reset, resolve, build the URL, issue the GET.
weather_handler(t) ==
  /\ pc[t] = "idle"
  /\ \E raw \in RawLocations :
       LET reset == _reset_stored_values(plugin)
           resolved == _location(reset, raw)
           built == _url(resolved)
       IN  /\ plugin' = built.self
           /\ location' = [location EXCEPT ![t] = raw]
           /\ url' = [url EXCEPT ![t] = built.ret]
  /\ pc' = [pc EXCEPT ![t] = "get"]
  /\ UNCHANGED <<status, body, parsed, error, link, msg, unitVars>>

\* The GET returns a response object, whatever its status.
http_get_returns(t) ==
  /\ pc[t] = "get"
  /\ \E st \in Statuses : status' = [status EXCEPT ![t] = st]
  /\ pc' = [pc EXCEPT ![t] = "text"]
  /\ UNCHANGED <<plugin, location, url, body, parsed, error, link, msg, unitVars>>

\* The GET raises (connection failure, timeout): the handler ends there.
http_get_raises(t) ==
  /\ pc[t] = "get"
  /\ error' = [error EXCEPT ![t] = "ClientError"]
  /\ pc' = [pc EXCEPT ![t] = "done"]
  /\ UNCHANGED <<plugin, location, url, status, body, parsed, link, msg, unitVars>>

\* response.text() raises while reading the body.
response_text_raises(t) ==
  /\ pc[t] = "text"
  /\ error' = [error EXCEPT ![t] = "ClientError"]
  /\ pc' = [pc EXCEPT ![t] = "done"]
  /\ UNCHANGED <<plugin, location, url, status, body, parsed, link, msg, unitVars>>

\* Lines 56-67 up to the await of evt.respond: the body arrives, is parsed
\* and formatted, and the message is handed to evt.respond.
response_text_returns(t) ==
  /\ pc[t] = "text"
  /\ \E doc \in ResponseBodies :
       LET wxdata == _parse_xml(doc)
           message == _message(plugin, wxfmt(wxdata.ret))
       IN  /\ body' = [body EXCEPT ![t] = doc]
           /\ parsed' = [parsed EXCEPT ![t] = TRUE]
           /\ IF wxdata.raised
                THEN /\ error' = [error EXCEPT ![t] = "ParseError"]
                     /\ pc' = [pc EXCEPT ![t] = "done"]
                     /\ UNCHANGED <<plugin, link, msg>>
                ELSE /\ plugin' = message.self
                     /\ link' = [link EXCEPT ![t] = plugin.config["show_link"]]
                     /\ msg' = [msg EXCEPT ![t] = message.ret]
                     /\ pc' = [pc EXCEPT ![t] = "respond"]
                     /\ UNCHANGED error
  /\ UNCHANGED <<location, url, status, unitVars>>

\* evt.respond returns and the handler with it.
respond_returns(t) ==
  /\ pc[t] = "respond"
  /\ pc' = [pc EXCEPT ![t] = "done"]
  /\ UNCHANGED <<plugin, location, url, status, body, parsed, error, link, msg,
                 unitVars>>

\* The finished coroutine and its locals are dropped.
task_ends(t) ==
  /\ pc[t] = "done"
  /\ pc' = [pc EXCEPT ![t] = "idle"]
  /\ NoLocals(t)
  /\ UNCHANGED <<plugin, unitVars>>

\* The configuration is edited while the plugin runs.
do_update ==
  /\ \E sl \in BOOLEAN, dl \in ConfigDefaults :
       /\ Config(sl, dl) # plugin.config
       /\ plugin' = [plugin EXCEPT !.config = Config(sl, dl)]
  /\ UNCHANGED <<handlerVars, unitVars>>

Step(t) ==
  \/ http_get_returns(t)
  \/ http_get_raises(t)
  \/ response_text_returns(t)
  \/ response_text_raises(t)
  \/ respond_returns(t)
  \/ task_ends(t)

Next ==
  \/ \E t \in Tasks : weather_handler(t)
  \/ \E t \in Tasks : Step(t)
  \/ do_update

Spec == Init /\ [][Next]_vars

-----------------------------------------------------------------------------
(* Commands handled one after another: a handler starts only when no       *)
(* other is suspended.                                                     *)

weather_handler_alone(t) ==
  /\ \A u \in Tasks \ {t} : pc[u] \in {"idle", "done"}
  /\ weather_handler(t)

NextSeq ==
  \/ \E t \in Tasks : weather_handler_alone(t)
  \/ \E t \in Tasks : Step(t)
  \/ do_update

SpecSeq == Init /\ [][NextSeq]_vars

-----------------------------------------------------------------------------
(* Unit level: the methods applied to bounded inputs, no handler running.  *)

NoHandler ==
  /\ pc = [t \in Tasks |-> "idle"]
  /\ location = [t \in Tasks |-> <<>>]
  /\ url = [t \in Tasks |-> <<>>]
  /\ status = [t \in Tasks |-> 0]
  /\ body = [t \in Tasks |-> Malformed]
  /\ parsed = [t \in Tasks |-> FALSE]
  /\ error = [t \in Tasks |-> ""]
  /\ link = [t \in Tasks |-> FALSE]
  /\ msg = [t \in Tasks |-> <<>>]

\* Every value default_location is given at unit level.
AllDefaults == {None} \cup Strings(MaxDefaultLen)

(* _location: arg is the raw location and the default configured when the  *)
(* invocation starts; ret lists the first value returned and the latest.   *)

InitLocation ==
  /\ \E raw \in Strings(MaxLen), dl \in AllDefaults :
       /\ arg = [location |-> raw, default_location |-> dl]
       /\ plugin = NwsBot(Config(FALSE, dl))
  /\ phase = "new"
  /\ ret = <<>>
  /\ NoHandler

\* Lines 53-54: the reset and the first resolution.
location_first ==
  /\ phase = "new"
  /\ LET after == _location(_reset_stored_values(plugin), arg.location)
     IN  /\ plugin' = after
         /\ ret' = <<after.stored_location>>
  /\ phase' = "resolved"
  /\ UNCHANGED <<arg, handlerVars>>

\* default_location is edited between two calls.
location_config_change ==
  /\ phase \in {"resolved", "again"}
  /\ \E dl \in AllDefaults :
       /\ dl # plugin.config["default_location"]
       /\ plugin' = [plugin EXCEPT !.config = Config(FALSE, dl)]
  /\ UNCHANGED <<phase, arg, ret, handlerVars>>

\* A later call in the same invocation: _location() as _base_url calls it,
\* or _location(location) with the same raw location.
location_again ==
  /\ phase \in {"resolved", "again"}
  /\ \E loc \in {<<>>, arg.location} :
       LET after == _location(plugin, loc)
       IN  /\ plugin' = after
           /\ ret' = <<ret[1], after.stored_location>>
  /\ phase' = "again"
  /\ UNCHANGED <<arg, handlerVars>>

NextLocation ==
  \/ location_first
  \/ location_config_change
  \/ location_again

SpecLocation == InitLocation /\ [][NextLocation]_vars

(* _url: the stored values are the inputs; arg records the option set.     *)

Languages == {<<>>, <<"en">>, <<"es">>}
Units == {<<>>, <<"metric">>}

InitUrl ==
  /\ \E loc \in {strip(s) : s \in Strings(MaxLen)},
        lang \in Languages, units \in Units, dl \in ConfigDefaults :
       plugin = [stored_language |-> lang, stored_location |-> loc,
                 stored_units |-> units, config |-> Config(FALSE, dl)]
  /\ phase = "new"
  /\ arg = <<>>
  /\ ret = <<>>
  /\ NoHandler

url_built ==
  /\ phase = "new"
  /\ arg' = _options(plugin)
  /\ plugin' = _url(plugin).self
  /\ ret' = <<_url(plugin).ret>>
  /\ phase' = "built"
  /\ UNCHANGED handlerVars

NextUrl == url_built

SpecUrl == InitUrl /\ [][NextUrl]_vars

(* _parse_xml: arg is the document.                                        *)

Tags == {"image", "observation_time", "station_id", "weather"}
Texts == {None, <<"Fair">>, <<"KSMP">>}
Elements == {Element(tag, text) : tag \in Tags, text \in Texts}

Documents ==
  {Malformed} \cup
  {Document(TRUE, c) : c \in UNION {[1..k -> Elements] : k \in 0..MaxChildren}}

InitParse ==
  /\ arg \in Documents
  /\ plugin = NwsBot(Config(FALSE, None))
  /\ phase = "new"
  /\ ret = <<>>
  /\ NoHandler

xml_parsed ==
  /\ phase = "new"
  /\ ret' = <<_parse_xml(arg)>>
  /\ phase' = "parsed"
  /\ UNCHANGED <<plugin, arg, handlerVars>>

NextParse == xml_parsed

SpecParse == InitParse /\ [][NextParse]_vars

-----------------------------------------------------------------------------
(* What the properties are stated with: trimming and resolution said       *)
(* without the plugin's methods.                                           *)

\* t is s without its leading and trailing spaces.
IsTrimOf(t, s) ==
  \E i, j \in 0..Len(s) :
    /\ i + j <= Len(s)
    /\ t = SubSeq(s, i + 1, Len(s) - j)
    /\ \A k \in 1..i : s[k] = " "
    /\ \A k \in (Len(s) - j + 1)..Len(s) : s[k] = " "
    /\ t # <<>> => t[1] # " " /\ t[Len(t)] # " "

Blank(s) == \A k \in 1..Len(s) : s[k] = " "

\* r is the location that raw and the configured default dl resolve to.
ResolvesTo(r, raw, dl) ==
  IF ~Blank(raw) THEN IsTrimOf(r, raw)
  ELSE IF dl = None THEN r = <<>>
  ELSE IsTrimOf(r, dl)

\* The URL of the observation of location r.
UrlOf(r) == URL(_service_url \o <<"/">> \o r \o <<".xml">>)

\* The URLs an invocation with this raw location can ask for by itself,
\* whatever the configuration is when it looks.
OwnUrls(raw) ==
  {UrlOf(r) : r \in {x \in Strings(Len(raw)) \cup {strip(d) : d \in ConfigDefaults \ {None}} :
                       \E dl \in ConfigDefaults : ResolvesTo(x, raw, dl)}}

\* The template rendered from the body task t received.
Content(t) == wxfmt(ParseLoop(body[t].children, EmptyDict))

Sent(t) == msg[t] # <<>>

\* key=value pairs joined by &, after a ?; nothing for no pairs.
RECURSIVE QueryPairs(_)
QueryPairs(options) ==
  IF options = <<>> THEN <<>>
  ELSE Head(options).key \o <<"=">> \o Head(options).value
       \o (IF Tail(options) = <<>> THEN <<>> ELSE <<"&">> \o QueryPairs(Tail(options)))

QueryString(options) ==
  IF options = <<>> THEN <<>> ELSE <<"?">> \o QueryPairs(options)

-----------------------------------------------------------------------------
(* Properties.                                                             *)

\* C1: under any interleaving of concurrent weather_handler invocations, the
\* message an invocation responds with is the template of its own response
\* and, when it carries a link, the URL of the link is one its own raw
\* location and the configuration give, never one built from the location
\* another invocation stored.
C1_InvocationsIndependent ==
  \A t \in Tasks :
    Sent(t) =>
      \/ msg[t] = Content(t)
      \/ \E u \in OwnUrls(location[t]) : msg[t] = Content(t) \o LinkLine(u)

\* C2: after the reset, a raw location that is not blank resolves to itself
\* trimmed, whatever the configured default; a blank one resolves to the
\* trimmed configured default, the empty string when that is None or empty.
C2_LocationResolution ==
  phase \in {"resolved", "again"} =>
    ResolvesTo(ret[1], arg.location, arg.default_location)

C2_Witness ==
  /\ phase = "resolved"
  /\ arg.location = <<" ", " ">>
  /\ arg.default_location = <<" ", "S">>
  /\ ret = << <<"S">> >>

\* C3: within one invocation every later call of _location returns what the
\* first call returned, also when the first returned the empty string and
\* also when default_location was changed in between.
C3_ResolutionFrozen ==
  phase = "again" => ret[2] = ret[1]

\* C4: an invocation whose GET failed (an exception, or a response whose
\* status is not a success) never parses a body and never sends a message,
\* and ends with the fetch error.
C4_FetchFailurePropagates ==
  \A t \in Tasks :
    (error[t] = "ClientError" \/ status[t] \notin {0} \cup (200..299)) =>
      /\ ~parsed[t]
      /\ ~Sent(t)
      /\ pc[t] = "done" => error[t] = "ClientError"

C6_ParseLastWins ==
  (phase = "parsed" /\ arg.wellformed) =>
    LET kids == arg.children
        kept == {i \in 1..Len(kids) :
                   kids[i].tag \notin {"image", "observation_time"}}
        d == ret[1].ret
    IN  /\ ~ret[1].raised
        /\ DOMAIN d = {kids[i].tag : i \in kept}
        /\ \A i \in kept :
             (\A j \in kept : kids[j].tag = kids[i].tag => j <= i)
               => d[kids[i].tag] = kids[i].text

C6_Witness ==
  /\ phase = "parsed"
  /\ arg = Document(TRUE, <<Element("weather", <<"KSMP">>),
                            Element("image", <<"Fair">>),
                            Element("weather", <<"Fair">>)>>)
  /\ DOMAIN ret[1].ret = {"weather"}
  /\ ret[1].ret["weather"] = <<"Fair">>

\* C7: when the body received is not well-formed, the parse raises, no
\* record comes out of it, and the invocation ends with that error having
\* formatted and sent nothing.
C7_MalformedIsTerminal ==
  \A t \in Tasks :
    (parsed[t] /\ ~body[t].wellformed) =>
      /\ _parse_xml(body[t]).raised
      /\ pc[t] = "done"
      /\ error[t] = "ParseError"
      /\ ~Sent(t)
      /\ ~link[t]

C7_Witness ==
  \E t \in Tasks :
    /\ parsed[t]
    /\ body[t] = Malformed
    /\ status[t] = 200
    /\ pc[t] = "done"
    /\ error[t] = "ParseError"

\* C8: with show_link false the message is the template and nothing more;
\* with show_link true it is the template, a blank line and the link line,
\* whose URL is the URL this invocation fetched.
C8_LinkIsRequestUrl ==
  \A t \in Tasks :
    Sent(t) =>
      msg[t] = IF link[t] THEN Content(t) \o LinkLine(url[t]) ELSE Content(t)

\* C9: in the message sent for a well-formed response, a template field the
\* response lacks is not written as None.
C9_MissingFieldPlaceholder ==
  \A t \in Tasks :
    Sent(t) =>
      \A i \in 1..Len(TemplateFields) :
        (\A k \in 1..Len(body[t].children) :
           body[t].children[k].tag # TemplateFields[i])
          => msg[t][2 * i] # "None"

\* C10: with commands handled one after another, an invocation that starts
\* leaves the stored language and units empty and the stored location and
\* the requested URL those of its own raw location and the configuration of
\* that moment, whatever earlier invocations stored.
C10_NoCarryOver ==
  [][\A t \in Tasks :
       (pc[t] = "idle" /\ pc'[t] = "get") =>
         /\ plugin'.stored_language = <<>>
         /\ plugin'.stored_units = <<>>
         /\ ResolvesTo(plugin'.stored_location, location'[t],
                       plugin.config["default_location"])
         /\ url'[t] = UrlOf(plugin'.stored_location)]_vars

C10_Witness ==
  \E t, u \in Tasks :
    /\ pc[u] = "done"
    /\ location[u] = <<" ", "S">>
    /\ url[u] = UrlOf(<<"S">>)
    /\ Sent(u)
    /\ pc[t] = "get"
    /\ location[t] = <<" ">>
    /\ url[t] = UrlOf(<<"K">>)

====
